---- MODULE Spec2Model ----
(***************************************************************************)
(* GitLab -> GitHub batch migration (src/migrate.py).                      *)
(*                                                                         *)
(* The model follows main() and the functions it calls step by step, one   *)
(* action per external call (HTTP request, git subprocess, file access),   *)
(* and lets the process be run several times against the same ledger file  *)
(* and the same local directory.  Responses of the two hosts and exit      *)
(* codes of git are inputs, drawn with \E from the sets below.             *)
(***************************************************************************)
EXTENDS Integers, Sequences, FiniteSets, TLC

\* ------------------------------------------------------------------ bounds
MaxProjects == 2      \* longest project listing the source host returns
MaxRuns     == 2      \* number of times the script is started

\* ------------------------------------------------------------- vocabulary
\* A project path is a string of characters; a ledger line is the path
\* followed by a newline (migrate.py:45).
NL == "\n"
SP == " "
Whitespace == {NL, SP}
Names == {<<"a">>, <<"b">>}

\* Python's None, and a value that is not None, for the variables that hold
\* a list or a URL.
None == [none |-> TRUE, val |-> <<>>]
Some(v) == [none |-> FALSE, val |-> v]
\* No response received, no exception raised.
Nothing == "nothing"

\* migration_log.txt: missing, or present with the given lines.
NoFile == [exists |-> FALSE, lines |-> <<>>]
File(lines) == [exists |-> TRUE, lines |-> lines]
\* A directory is the path to it from the directory the script is started in.
Root == <<>>
Dir(name) == <<name>>

\* Answers of the destination host: the status code of the response, or
\* "exception" when requests raises instead of returning a response.
ProbeResponses  == {"200", "404", "403", "exception"}
\* 422 is the host's rejection of a name that is already taken.
CreateResponses == {"201", "422", "403", "exception"}

\* Exit of "git clone": 0, or non-zero having removed what it created, or
\* non-zero with the directory left behind ("Clone succeeded, but checkout
\* failed", or the git process was killed).
CloneOutcomes == {"ok", "fail_clean", "fail_left"}

RECURSIVE SeqsUpTo(_, _)
SeqsUpTo(S, n) ==
    IF n = 0 THEN {<<>>}
    ELSE LET shorter == SeqsUpTo(S, n - 1)
         IN  shorter \cup {Append(s, x) : s \in {t \in shorter : Len(t) = n - 1}, x \in S}

ProjectLists == SeqsUpTo(Names, MaxProjects)

\* params["per_page"]: the most projects one page of the listing holds.
PerPage == 100

\* Answers of the source host to one page request when the listing has room
\* for `room` more projects: a page (empty past the last one), or a failure.
PageResponses(room) ==
    {[ok |-> TRUE, items |-> p] :
        p \in {q \in ProjectLists : Len(q) <= room /\ Len(q) <= PerPage}}
    \cup {[ok |-> FALSE, items |-> <<>>]}

\* ------------------------------------------------------------------ state
VARIABLES
    \* the world outside the process
    ledger,                 \* migration_log.txt in Root: NoFile or File(lines)
    workdirs,               \* names of the project directories that exist in Root
    origins,                \* .git/config of those directories: the origin URLs
                            \* written by "git remote set-url"
    \* the process
    run,                    \* how many times the script has been started
    pc,                     \* position of the process in main()
    cwd,                    \* os.getcwd()
    completed_migrations,   \* main: set loaded at line 163
    gitlab_projects,        \* main: result of get_gitlab_projects()
    idx,                    \* main: position of the for loop (1-based)
    successful_migrations,
    failed_migrations,
    skipped_migrations,
    github_clone_url,       \* main: result of create_github_repo(), or None
    response,               \* create_github_repo: status of the last response
    success,                \* main: result of transfer_repository()
    original_cwd,           \* transfer_repository: line 116
    all_projects,           \* get_gitlab_projects: pages received so far
    page,                   \* get_gitlab_projects: number of the next page
    \* observations of the current run (not read by the program)
    ledgerAtStart,          \* names in the ledger file when the run started
    linesAtStart,           \* number of lines of the ledger file at that time
    outcomes,               \* terminal state of each project handled so far
    calls,                  \* external calls made for the current project, in order
    crashedAt,              \* where an uncaught exception ended the run, or None
    listFailedAt,           \* page whose request failed in this run, or 0
    prevRun                 \* how the previous run ended and, when it printed its
                            \* summary, what it listed and how many projects failed

vars == <<ledger, workdirs, origins, run, pc, cwd, completed_migrations, gitlab_projects,
          idx, successful_migrations, failed_migrations, skipped_migrations,
          github_clone_url, response, success, original_cwd,
          all_projects, page,
          ledgerAtStart, linesAtStart, outcomes, calls, crashedAt, listFailedAt,
          prevRun>>

world   == <<ledger, workdirs, origins>>
counts  == <<successful_migrations, failed_migrations, skipped_migrations>>
locals  == <<completed_migrations, gitlab_projects, idx, github_clone_url,
             response, success, original_cwd>>
listing == <<all_projects, page, listFailedAt>>

\* --------------------------------------------------------- pure functions
\* str.strip(): drop leading and trailing whitespace (migrate.py:40).
RECURSIVE LStrip(_)
LStrip(s) == IF s # <<>> /\ Head(s) \in Whitespace THEN LStrip(Tail(s)) ELSE s

RECURSIVE RStrip(_)
RStrip(s) == IF s # <<>> /\ s[Len(s)] \in Whitespace
             THEN RStrip(SubSeq(s, 1, Len(s) - 1)) ELSE s

\* Faulty variant of Strip: the newline read from the file is kept.
Unstripped(s) == s

Strip(s) == RStrip(LStrip(s))

\* f"{project_name}\n" (migrate.py:45)
LedgerLine(name) == name \o <<NL>>

Range(s) == {s[k] : k \in 1..Len(s)}

\* load_completed_migrations (migrate.py:35-40), applied to a file content.
LoadCompletedMigrations(file) ==
    IF ~file.exists THEN {} ELSE {Strip(line) : line \in Range(file.lines)}

\* Faulty variant of LogCompletedMigration: the file is opened with "w".
LogTruncating(file, name) == File(<<LedgerLine(name)>>)

\* log_completed_migration (migrate.py:42-45): open(..., "a") creates the
\* file when it is missing and appends one line.
LogCompletedMigration(file, name) ==
    File(Append(file.lines, LedgerLine(name)))

\* Names recorded in the ledger file.
LedgerNames == LoadCompletedMigrations(ledger)

\* project["path"] of the project the loop is at (migrate.py:178).
project_name == gitlab_projects.val[idx]

\* ------------------------------------------------------------------- Init
NoPrev == [projects |-> None, ended |-> Nothing, failed |-> 0]

Init ==
    /\ ledger = NoFile
    /\ workdirs = {}
    /\ origins = {}
    /\ run = 0
    /\ pc = "not_started"
    /\ cwd = Root
    /\ completed_migrations = {}
    /\ gitlab_projects = None
    /\ idx = 0
    /\ successful_migrations = 0
    /\ failed_migrations = <<>>
    /\ skipped_migrations = 0
    /\ github_clone_url = None
    /\ response = Nothing
    /\ success = FALSE
    /\ original_cwd = Root
    /\ all_projects = <<>>
    /\ page = 1
    /\ listFailedAt = 0
    /\ ledgerAtStart = {}
    /\ linesAtStart = 0
    /\ outcomes = <<>>
    /\ calls = <<>>
    /\ crashedAt = Nothing
    /\ prevRun = NoPrev

\* ---------------------------------------------------------------- process
Ended == {"done", "exit", "crashed", "interrupted"}

\* A new process: python migrate.py, started in Root.
StartRun ==
    /\ pc \in Ended \cup {"not_started"}
    /\ run < MaxRuns
    /\ run' = run + 1
    /\ pc' = "which"
    /\ cwd' = Root
    /\ completed_migrations' = {}
    /\ gitlab_projects' = None
    /\ idx' = 0
    /\ successful_migrations' = 0
    /\ failed_migrations' = <<>>
    /\ skipped_migrations' = 0
    /\ github_clone_url' = None
    /\ response' = Nothing
    /\ success' = FALSE
    /\ original_cwd' = Root
    /\ all_projects' = <<>>
    /\ page' = 1
    /\ ledgerAtStart' = LedgerNames
    /\ linesAtStart' = Len(ledger.lines)
    /\ outcomes' = <<>>
    /\ calls' = <<>>
    /\ crashedAt' = Nothing
    /\ listFailedAt' = 0
    /\ prevRun' = IF run = 0 THEN NoPrev
                  ELSE IF pc = "done"
                  THEN [projects |-> gitlab_projects, ended |-> pc,
                        failed |-> Len(failed_migrations)]
                  ELSE [projects |-> None, ended |-> pc, failed |-> 0]
    /\ UNCHANGED world

\* An uncaught exception: the traceback is printed and the process ends.
Crash(where) ==
    /\ pc' = "crashed"
    /\ crashedAt' = where

\* The process is killed (Ctrl-C, power loss) wherever it is.  Its memory is
\* gone; the ledger file and the directories stay as they are.
Interrupt ==
    /\ pc \notin Ended \cup {"not_started"}
    /\ pc' = "interrupted"
    /\ cwd' = Root
    /\ completed_migrations' = {}
    /\ gitlab_projects' = None
    /\ idx' = 0
    /\ successful_migrations' = 0
    /\ failed_migrations' = <<>>
    /\ skipped_migrations' = 0
    /\ github_clone_url' = None
    /\ response' = Nothing
    /\ success' = FALSE
    /\ original_cwd' = Root
    /\ all_projects' = <<>>
    /\ page' = 1
    /\ outcomes' = <<>>
    /\ calls' = <<>>
    /\ UNCHANGED <<world, run, ledgerAtStart, linesAtStart, crashedAt, listFailedAt, prevRun>>

\* ---------------------------------------------------------------- helpers
\* "clone_url" of the destination repository named name.
CloneUrl(name) ==
    [scheme |-> "https://", userinfo |-> "", host |-> "github.com/user/", repo |-> name]

\* f"{GITHUB_USERNAME}:{GITHUB_TOKEN}@" (migrate.py:135)
Credentials == "user:token@"

\* github_clone_url.replace("https://", "https://user:token@")
\* (migrate.py:134-136)
AuthenticatedUrl(url) ==
    IF url.scheme = "https://" THEN [url EXCEPT !.userinfo = Credentials] ELSE url

\* What remains of the origin URLs when only the directories dirs remain.
Kept(dirs) == {o \in origins : o.dir \in dirs}

\* shutil.rmtree(project_name, onerror=handle_remove_readonly) in Root
\* (migrate.py:27-33, 104, 129, 144, 149), when it does not raise.
RmTree(dirs, name) == dirs \ {name}

\* Faulty variant of RecordFailed: the failed project is tried again.
RecordFailedThenRetry ==
    /\ pc' = "loop"
    /\ UNCHANGED <<failed_migrations, outcomes, idx>>

\* continue / end of the loop body for a project that failed
\* (migrate.py:193-194, 202).
RecordFailed ==
    /\ failed_migrations' = Append(failed_migrations, project_name)
    /\ outcomes' = Append(outcomes, "Failed")
    /\ idx' = idx + 1
    /\ pc' = "loop"

\* main, lines 156-159: shutil.which("git-filter-repo").
CheckFilterRepo ==
    /\ pc = "which"
    /\ \E found \in BOOLEAN : pc' = IF found THEN "load" ELSE "exit"
    /\ UNCHANGED <<listing, world, run, cwd, locals, counts, ledgerAtStart, linesAtStart, outcomes,
                   calls, crashedAt, prevRun>>

\* Faulty variant of Load: the ledger is never consulted.
LoadIgnoringLedger ==
    /\ pc = "load"
    /\ completed_migrations' = {}
    /\ pc' = "list"
    /\ UNCHANGED <<listing, response, world, run, cwd, gitlab_projects, idx,
                   github_clone_url, success, original_cwd, counts,
                   ledgerAtStart, linesAtStart, outcomes, calls, crashedAt, prevRun>>

\* main, lines 163-165.  The relative path names the file in Root only while
\* the process is in Root.
Load ==
    /\ pc = "load"
    /\ completed_migrations' =
           LoadCompletedMigrations(IF cwd = Root THEN ledger ELSE NoFile)
    /\ pc' = "list"
    /\ UNCHANGED <<listing, response, world, run, cwd, gitlab_projects, idx, github_clone_url,
                   success, original_cwd, counts, ledgerAtStart, linesAtStart, outcomes,
                   calls, crashedAt, prevRun>>

\* Faulty variant of GetGitlabProjects: the pages received before the
\* failure are returned.
GetPartialProjects(received, ok) == Some(received)

\* get_gitlab_projects (migrate.py:47-68), its result: the pages received
\* when the listing ended with an empty page, None when a page request failed.
GetGitlabProjects(received, ok) == IF ok THEN Some(received) ELSE None

\* get_gitlab_projects returns got, and main goes on (lines 167-175).
ListReturn(got) ==
    /\ gitlab_projects' = got
    /\ IF got.none \/ got.val = <<>>
       THEN pc' = "exit" /\ idx' = idx
       ELSE pc' = "loop" /\ idx' = 1
    /\ successful_migrations' = 0
    /\ failed_migrations' = <<>>
    /\ skipped_migrations' = 0
    /\ all_projects' = <<>>
    /\ page' = 1

\* get_gitlab_projects, lines 55-66: one page request.  A non-empty page is
\* appended and the next page requested; an empty page ends the listing; a
\* RequestException returns None.
List ==
    /\ pc = "list"
    /\ \E r \in PageResponses(MaxProjects - Len(all_projects)) :
         IF ~r.ok
         THEN /\ ListReturn(GetGitlabProjects(all_projects, FALSE))
              /\ listFailedAt' = page
         ELSE IF r.items = <<>>
         THEN /\ ListReturn(GetGitlabProjects(all_projects, TRUE))
              /\ UNCHANGED listFailedAt
         ELSE /\ all_projects' = all_projects \o r.items
              /\ page' = page + 1
              /\ UNCHANGED <<pc, gitlab_projects, idx, counts, listFailedAt>>
    /\ UNCHANGED <<response, world, run, cwd, completed_migrations, github_clone_url,
                   success, original_cwd, ledgerAtStart, linesAtStart, outcomes, calls,
                   crashedAt, prevRun>>

\* Faulty variant of SkipCompleted: the skip is not counted.
SkipUncounted ==
    /\ idx' = idx + 1
    /\ outcomes' = Append(outcomes, "Skipped")
    /\ pc' = "loop"
    /\ UNCHANGED <<skipped_migrations, calls>>

\* main, lines 181-183: the project is skipped and counted.
SkipCompleted ==
    /\ idx' = idx + 1
    /\ skipped_migrations' = skipped_migrations + 1
    /\ outcomes' = Append(outcomes, "Skipped")
    /\ pc' = "loop"
    /\ UNCHANGED calls

\* Faulty variant of LoopHead: the skip test reads the ledger file again.
LoopHeadReloading ==
    /\ pc = "loop"
    /\ IF idx > Len(gitlab_projects.val)
       THEN /\ pc' = "done"
            /\ UNCHANGED <<idx, skipped_migrations, outcomes, calls>>
       ELSE IF project_name \in LedgerNames
            THEN SkipCompleted
            ELSE /\ pc' = "probe"
                 /\ calls' = <<>>
                 /\ UNCHANGED <<idx, skipped_migrations, outcomes>>
    /\ UNCHANGED <<listing, response, world, run, cwd, completed_migrations, gitlab_projects,
                   github_clone_url, success, original_cwd,
                   successful_migrations, failed_migrations, ledgerAtStart, linesAtStart,
                   crashedAt, prevRun>>

\* main, lines 177-187 and 204-212: the head of the for loop.  Past the last
\* project the summary is printed and main returns.
LoopHead ==
    /\ pc = "loop"
    /\ IF idx > Len(gitlab_projects.val)
       THEN /\ pc' = "done"
            /\ UNCHANGED <<idx, skipped_migrations, outcomes, calls>>
       ELSE IF project_name \in completed_migrations
            THEN SkipCompleted
            ELSE /\ pc' = "probe"
                 /\ calls' = <<>>
                 /\ UNCHANGED <<idx, skipped_migrations, outcomes>>
    /\ UNCHANGED <<listing, response, world, run, cwd, completed_migrations, gitlab_projects,
                   github_clone_url, success, original_cwd,
                   successful_migrations, failed_migrations, ledgerAtStart, linesAtStart,
                   crashedAt, prevRun>>

\* ------------------------------------------------------ create_github_repo
\* Faulty variant of Probe: an existing repository is created again.
ProbeThenCreate ==
    /\ pc = "probe"
    /\ calls' = Append(calls, "probe")
    /\ \E status \in ProbeResponses :
         CASE status = "200" ->
                /\ response' = status
                /\ github_clone_url' = Some(CloneUrl(project_name))
                /\ pc' = "create"
                /\ UNCHANGED crashedAt
           [] status = "404" ->
                /\ response' = status
                /\ pc' = "create"
                /\ UNCHANGED <<github_clone_url, crashedAt>>
           [] status = "exception" ->
                /\ Crash("probe")
                /\ UNCHANGED <<github_clone_url, response>>
           [] OTHER ->
                /\ response' = status
                /\ github_clone_url' = None
                /\ pc' = "checkurl"
                /\ UNCHANGED crashedAt
    /\ UNCHANGED <<listing, world, run, cwd, completed_migrations, gitlab_projects, idx,
                   success, original_cwd, counts, ledgerAtStart, linesAtStart, outcomes,
                   prevRun>>

\* Lines 72-78 and 92-94: the probe.  requests.get is outside any try.
Probe ==
    /\ pc = "probe"
    /\ calls' = Append(calls, "probe")
    /\ \E status \in ProbeResponses :
         CASE status = "200" ->
                /\ response' = status
                /\ github_clone_url' = Some(CloneUrl(project_name))
                /\ pc' = "checkurl"
                /\ UNCHANGED crashedAt
           [] status = "404" ->
                /\ response' = status
                /\ pc' = "create"
                /\ UNCHANGED <<github_clone_url, crashedAt>>
           [] status = "exception" ->
                /\ Crash("probe")
                /\ UNCHANGED <<github_clone_url, response>>
           [] OTHER ->
                /\ response' = status
                /\ github_clone_url' = None
                /\ pc' = "checkurl"
                /\ UNCHANGED crashedAt
    /\ UNCHANGED <<listing, world, run, cwd, completed_migrations, gitlab_projects, idx,
                   success, original_cwd, counts, ledgerAtStart, linesAtStart, outcomes,
                   prevRun>>

\* Lines 80-91: the create request.  Every RequestException (an HTTP error
\* status from raise_for_status, a connection error) gives None.
CreateResult(status, name) ==
    IF status = "201" THEN Some(CloneUrl(name)) ELSE None

Create ==
    /\ pc = "create"
    /\ calls' = Append(calls, "create")
    /\ \E status \in CreateResponses :
         /\ response' = IF status = "exception" THEN response ELSE status
         /\ github_clone_url' = CreateResult(status, project_name)
    /\ pc' = "checkurl"
    /\ UNCHANGED <<listing, world, run, cwd, completed_migrations, gitlab_projects, idx,
                   success, original_cwd, counts, ledgerAtStart, linesAtStart, outcomes,
                   crashedAt, prevRun>>

\* main, lines 191-194.
CheckUrl ==
    /\ pc = "checkurl"
    /\ IF github_clone_url.none
       THEN /\ RecordFailed
            /\ UNCHANGED <<successful_migrations, skipped_migrations>>
       ELSE /\ pc' = "t_cleanup"
            /\ UNCHANGED <<counts, idx, outcomes>>
    /\ UNCHANGED <<listing, response, world, run, cwd, completed_migrations, gitlab_projects,
                   github_clone_url, success, original_cwd, ledgerAtStart, linesAtStart,
                   calls, crashedAt, prevRun>>

\* ------------------------------------------------------ transfer_repository
\* os.path.exists(project_name): the path is relative to the working directory.
ExistsHere(name) == cwd = Root /\ name \in workdirs

\* Faulty variant of TCleanup: a directory left by an earlier attempt stays.
TCleanupSkipped ==
    /\ pc = "t_cleanup"
    /\ pc' = "t_clone"
    /\ UNCHANGED <<listing, world, run, cwd, locals, counts, ledgerAtStart, linesAtStart,
                   outcomes, calls, crashedAt, prevRun>>

\* Lines 101-104: clean up a previous attempt.  rmtree re-raises what
\* handle_remove_readonly cannot repair.
TCleanup ==
    /\ pc = "t_cleanup"
    /\ IF ExistsHere(project_name)
       THEN /\ calls' = Append(calls, "rm_stale")
            /\ \E raises \in BOOLEAN :
                 IF raises
                 THEN Crash("rmtree") /\ UNCHANGED workdirs
                 ELSE /\ workdirs' = RmTree(workdirs, project_name)
                      /\ pc' = "t_clone"
                      /\ UNCHANGED crashedAt
       ELSE /\ pc' = "t_clone"
            /\ UNCHANGED <<workdirs, calls, crashedAt>>
    /\ origins' = Kept(workdirs')
    /\ UNCHANGED <<listing, ledger, run, cwd, locals, counts, ledgerAtStart, linesAtStart,
                   outcomes, prevRun>>

\* Lines 106-117: git clone, then chdir into the clone.  The except branch
\* (112-114) returns False and removes nothing.
TClone ==
    /\ pc = "t_clone"
    /\ calls' = Append(calls, "clone")
    /\ \E out \in CloneOutcomes :
         CASE out = "ok" ->
                /\ workdirs' = workdirs \cup {project_name}
                /\ original_cwd' = cwd
                /\ cwd' = Dir(project_name)
                /\ pc' = "t_filter"
                /\ UNCHANGED success
           [] out = "fail_clean" ->
                /\ success' = FALSE
                /\ pc' = "book"
                /\ UNCHANGED <<workdirs, original_cwd, cwd>>
           [] OTHER ->
                /\ workdirs' = workdirs \cup {project_name}
                /\ success' = FALSE
                /\ pc' = "book"
                /\ UNCHANGED <<original_cwd, cwd>>
    /\ UNCHANGED <<listing, response, ledger, origins, run, completed_migrations,
                   gitlab_projects, idx, github_clone_url, counts, ledgerAtStart, linesAtStart,
                   outcomes, crashedAt, prevRun>>

\* Faulty variant of Leave: the function returns from inside the clone.
LeaveWithoutChdir(result) ==
    /\ UNCHANGED cwd
    /\ \E raises \in BOOLEAN :
         IF raises
         THEN Crash("rmtree") /\ UNCHANGED <<workdirs, success>>
         ELSE /\ workdirs' = RmTree(workdirs, project_name)
              /\ success' = result
              /\ pc' = "book"
              /\ UNCHANGED crashedAt

\* Faulty variant of Leave: the failure branches return True as well.
LeaveReturningTrue(result) ==
    /\ cwd' = original_cwd
    /\ \E raises \in BOOLEAN :
         IF raises
         THEN Crash("rmtree") /\ UNCHANGED <<workdirs, success>>
         ELSE /\ workdirs' = RmTree(workdirs, project_name)
              /\ success' = TRUE
              /\ pc' = "book"
              /\ UNCHANGED crashedAt

\* os.chdir(original_cwd); shutil.rmtree(project_name, ...); return result
\* (lines 128-130, 143-145, 148-151).
Leave(result) ==
    /\ cwd' = original_cwd
    /\ \E raises \in BOOLEAN :
         IF raises
         THEN Crash("rmtree") /\ UNCHANGED <<workdirs, success>>
         ELSE /\ workdirs' = RmTree(workdirs, project_name)
              /\ success' = result
              /\ pc' = "book"
              /\ UNCHANGED crashedAt

\* One git subprocess run with check=True inside the clone: it either exits 0
\* and the function goes on to next, or raises CalledProcessError and the
\* except branch cleans up and returns False.
\* written is what a successful run writes to the clone's configuration.
GitStep(here, call, next, written) ==
    /\ pc = here
    /\ calls' = Append(calls, call)
    /\ \E ok \in BOOLEAN :
         IF ok
         THEN /\ pc' = next
              /\ origins' = origins \cup written
              /\ UNCHANGED <<workdirs, cwd, success, crashedAt>>
         ELSE /\ Leave(FALSE)
              /\ origins' = Kept(workdirs')
    /\ UNCHANGED <<listing, response, ledger, run, completed_migrations, gitlab_projects, idx,
                   github_clone_url, original_cwd, counts, ledgerAtStart, linesAtStart,
                   outcomes, prevRun>>

\* Lines 119-130: git filter-repo --strip-blobs-bigger-than.
TFilter == GitStep("t_filter", "filter", "t_seturl", {})

\* Lines 132-138: git remote set-url origin <authenticated url>.
TSetUrl ==
    GitStep("t_seturl", "set_url", "t_pushall",
            {[dir |-> project_name, url |-> AuthenticatedUrl(github_clone_url.val)]})

\* Line 139: git push origin --all.
TPushAll == GitStep("t_pushall", "push_all", "t_pushtags", {})

\* Line 140: git push origin --tags.
TPushTags == GitStep("t_pushtags", "push_tags", "t_final", {})

\* Lines 147-151: cleanup and return True.
TFinal ==
    /\ pc = "t_final"
    /\ Leave(TRUE)
    /\ origins' = Kept(workdirs')
    /\ UNCHANGED <<listing, response, ledger, run, completed_migrations, gitlab_projects, idx,
                   github_clone_url, original_cwd, counts, ledgerAtStart, linesAtStart,
                   outcomes, calls, prevRun>>

\* ------------------------------------------------------------- bookkeeping
\* Faulty variant of RecordSucceeded: the success is counted and not logged.
RecordSucceededUnlogged ==
    /\ successful_migrations' = successful_migrations + 1
    /\ outcomes' = Append(outcomes, "Completed")
    /\ idx' = idx + 1
    /\ pc' = "loop"
    /\ UNCHANGED <<ledger, crashedAt, failed_migrations, skipped_migrations>>

\* main, lines 198-200: count the success, then append to the ledger.  The
\* open/write is in no try: an OSError ends the run.
RecordSucceeded ==
    /\ successful_migrations' = successful_migrations + 1
    /\ \E written \in BOOLEAN :
         IF written
         THEN /\ ledger' = IF cwd = Root
                           THEN LogCompletedMigration(ledger, project_name)
                           ELSE ledger
              /\ outcomes' = Append(outcomes, "Completed")
              /\ idx' = idx + 1
              /\ pc' = "loop"
              /\ UNCHANGED crashedAt
         ELSE /\ Crash("log_completed_migration")
              /\ UNCHANGED <<ledger, outcomes, idx>>
    /\ UNCHANGED <<failed_migrations, skipped_migrations>>

\* Faulty variant of Book: the first failed transfer ends the loop.
BookStopsOnFailure ==
    /\ pc = "book"
    /\ IF success
       THEN RecordSucceeded
       ELSE /\ failed_migrations' = Append(failed_migrations, project_name)
            /\ outcomes' = Append(outcomes, "Failed")
            /\ idx' = idx + 1
            /\ pc' = "done"
            /\ UNCHANGED <<ledger, successful_migrations, skipped_migrations,
                           crashedAt>>
    /\ UNCHANGED <<listing, response, workdirs, origins, run, cwd, completed_migrations,
                   gitlab_projects, github_clone_url, success, original_cwd,
                   ledgerAtStart, linesAtStart, calls, prevRun>>

\* Faulty variant of Book: the result of the transfer is not tested.
BookLogsEveryResult ==
    /\ pc = "book"
    /\ RecordSucceeded
    /\ UNCHANGED <<listing, response, workdirs, origins, run, cwd, completed_migrations,
                   gitlab_projects, github_clone_url, success, original_cwd,
                   ledgerAtStart, linesAtStart, calls, prevRun>>

\* main, lines 197-202: the result of transfer_repository is handled.
Book ==
    /\ pc = "book"
    /\ IF success
       THEN RecordSucceeded
       ELSE /\ RecordFailed
            /\ UNCHANGED <<ledger, successful_migrations, skipped_migrations,
                           crashedAt>>
    /\ UNCHANGED <<listing, response, workdirs, origins, run, cwd, completed_migrations, gitlab_projects,
                   github_clone_url, success, original_cwd, ledgerAtStart, linesAtStart,
                   calls, prevRun>>

\* ------------------------------------------------------------ specification
Step ==
    \/ CheckFilterRepo
    \/ Load
    \/ List
    \/ LoopHead
    \/ Probe
    \/ Create
    \/ CheckUrl
    \/ TCleanup
    \/ TClone
    \/ TFilter
    \/ TSetUrl
    \/ TPushAll
    \/ TPushTags
    \/ TFinal
    \/ Book

Next ==
    \/ StartRun
    \/ Step
    \/ Interrupt

Spec == Init /\ [][Next]_vars

\* The interpreter keeps executing main until it returns or an exception
\* ends it; every external call is synchronous and returns or raises.
\* Being killed is not something that has to happen.
FairSpec == Spec /\ WF_vars(Step)

\* ================================================================== claims
Handled == skipped_migrations + successful_migrations + Len(failed_migrations)

\* The process is inside the for loop or has printed the summary.
Counting == ~gitlab_projects.none /\ pc \notin {"exit", "crashed", "interrupted", "not_started"}

TransferCalls == <<"clone", "filter", "set_url", "push_all", "push_tags">>

\* The last n elements of s.
Last(s, n) == SubSeq(s, Len(s) - n + 1, Len(s))

IsPrefix(s, t) == Len(s) <= Len(t) /\ SubSeq(t, 1, Len(s)) = s

\* C1: partition property.  While the loop runs, the three counters sum to
\* the number of projects already handled (idx - 1), and when the summary is
\* printed they sum to the number of enumerated projects.
C1_Partition ==
    Counting /\ pc \notin {"which", "load", "list"} =>
        /\ Handled = idx - 1
        /\ pc = "done" => Handled = Len(gitlab_projects.val)

C1_Witness ==
    /\ pc = "done"
    /\ Len(gitlab_projects.val) = 2
    /\ skipped_migrations = 1
    /\ Len(failed_migrations) = 1

\* C2: ledger monotonicity.  No step of any run, and no end or start of a
\* run, removes a name from the ledger file, removes the file or rewrites a
\* line of it: the old content is a prefix of the new one.
C2_LedgerMonotone ==
    [][/\ LedgerNames \subseteq LedgerNames'
       /\ ledger.exists => ledger'.exists
       /\ IsPrefix(ledger.lines, ledger'.lines)]_vars

C2_Witness ==
    /\ run = 2
    /\ prevRun.ended = "interrupted"
    /\ ledgerAtStart # {}
    /\ LedgerNames # ledgerAtStart

\* C3: the ledger changes only in the step that handles the result of
\* transfer_repository, only when that result is True and the calls made
\* for the project end with the complete transfer (clone ... push of tags),
\* and what is appended is the line of that very project.
C3_AppendOnlyAfterSuccess ==
    [][ledger' # ledger =>
         /\ pc = "book"
         /\ success
         /\ Len(calls) >= 5 /\ Last(calls, 5) = TransferCalls
         /\ project_name \notin workdirs
         /\ ledger' = LogCompletedMigration(ledger, project_name)]_vars

C3_Witness ==
    /\ pc = "done"
    /\ outcomes = <<"Failed", "Completed">>
    /\ gitlab_projects.val = <<(<<"a">>), (<<"b">>)>>
    /\ ledger.lines = <<LedgerLine(<<"b">>)>>

\* This run enumerated the same project sequence as the run before it, and
\* the run before it got as far as its summary.
SameListingAgain ==
    /\ run >= 2
    /\ ~gitlab_projects.none
    /\ prevRun.ended = "done"
    /\ prevRun.projects = gitlab_projects

\* C4 as stated: a second run over the same listing migrates nothing anew.
C4_SecondRunMigratesNothing ==
    SameListingAgain => successful_migrations = 0

\* C4, amended: when the first run ended with an empty failed list, a second
\* run over the same listing attempts nothing: every project it handles is
\* skipped via the ledger, nothing succeeds or fails, and its summary counts
\* every enumerated project as skipped.
C4_Idempotent ==
    SameListingAgain /\ prevRun.failed = 0 =>
        /\ successful_migrations = 0
        /\ failed_migrations = <<>>
        /\ pc \in {"loop", "done", "interrupted"}
        /\ \A k \in 1..Len(outcomes) : outcomes[k] = "Skipped"
        /\ pc = "done" => skipped_migrations = Len(gitlab_projects.val)

C4_Witness ==
    /\ SameListingAgain
    /\ prevRun.failed = 0
    /\ pc = "done"
    /\ skipped_migrations = 2
    /\ Cardinality(ledgerAtStart) = 2

\* Positions of main between the skip test and the end of the loop body:
\* the project at idx is being resolved or transferred.
AttemptPcs == {"probe", "create", "checkurl", "t_cleanup", "t_clone", "t_filter",
               "t_seturl", "t_pushall", "t_pushtags", "t_final", "book"}

\* C5: a project is skipped exactly when its name was in the ledger file at
\* the start of the run; the process is never at a probe, create, clone,
\* filter or push for such a project; and skipped_migrations counts them.
C5_SkipsLedgerNames ==
    ~gitlab_projects.none =>
        /\ \A k \in 1..Len(outcomes) :
             (gitlab_projects.val[k] \in ledgerAtStart) <=> (outcomes[k] = "Skipped")
        /\ pc \in AttemptPcs => project_name \notin ledgerAtStart
        /\ skipped_migrations =
             Cardinality({k \in 1..Len(outcomes) : gitlab_projects.val[k] \in ledgerAtStart})

C5_Witness ==
    /\ run = 2
    /\ prevRun.ended = "interrupted"
    /\ pc = "done"
    /\ outcomes = <<"Skipped", "Completed">>

Terminal == {"Skipped", "Completed", "Failed"}

NoRepeat(s) == \A j, k \in 1..Len(s) : s[j] = s[k] => j = k

\* Projects 1..idx-1 are in a terminal state, in listing order; the project
\* at idx is the only one that may be in progress, and no call has been made
\* twice for it.
C6_OneAtATime ==
    ~gitlab_projects.none /\ idx >= 1 =>
        /\ idx <= Len(gitlab_projects.val) + 1
        /\ Len(outcomes) = idx - 1
        /\ \A k \in 1..Len(outcomes) : outcomes[k] \in Terminal
        /\ NoRepeat(calls)
        /\ pc = "done" => Len(outcomes) = Len(gitlab_projects.val)

\* While the process lives the loop position only moves forward by one, at the moment
\* the project it leaves gets its terminal state; a project is entered
\* (calls reset) only from the loop head, and calls only grows otherwise.
C6_InOrder ==
    run' = run /\ pc' # "interrupted" =>
    /\ idx' # idx =>
         \/ idx = 0 /\ idx' = 1 /\ outcomes' = outcomes
         \/ /\ idx' = idx + 1
            /\ Len(outcomes') = Len(outcomes) + 1
            /\ SubSeq(outcomes', 1, Len(outcomes)) = outcomes
            /\ pc' = "loop"
    /\ calls' # calls =>
         \/ calls' = <<>> /\ pc = "loop" /\ pc' = "probe"
         \/ Len(calls') = Len(calls) + 1 /\ SubSeq(calls', 1, Len(calls)) = calls

\* C6: every enumerated project is handled once, in listing order, one at a
\* time, with no retry; and a run that has entered the loop ends: with the
\* summary, unless an exception or a kill ends it first.
C6_ExactlyOnceInOrder ==
    /\ []C6_OneAtATime
    /\ [][C6_InOrder]_vars
    /\ (pc = "loop") ~> (pc \in {"done", "crashed", "interrupted"})

C6_Witness ==
    /\ pc = "done"
    /\ outcomes = <<"Completed", "Failed">>
    /\ failed_migrations = <<(<<"a">>)>>
    /\ gitlab_projects.val = <<(<<"a">>), (<<"a">>)>>

TransferPcs == {"t_cleanup", "t_clone", "t_filter", "t_seturl", "t_pushall",
                "t_pushtags", "t_final"}

\* C7: a transfer that ends in a failed clone, filter, set-url or push
\* returns False without touching the ledger; main then appends the name to
\* failed_migrations, leaves the ledger and successful_migrations as they
\* are, and goes to the loop head for the next project.
C7_FailureIsLocal ==
    [][/\ pc \in TransferPcs /\ pc' = "book" /\ Last(calls', 1) # <<"push_tags">> =>
            ~success' /\ ledger' = ledger
       /\ pc = "book" /\ ~success /\ pc' # "interrupted" =>
            /\ ledger' = ledger
            /\ failed_migrations' = Append(failed_migrations, project_name)
            /\ successful_migrations' = successful_migrations
            /\ skipped_migrations' = skipped_migrations
            /\ idx' = idx + 1
            /\ pc' = "loop"]_vars

C7_Witness ==
    /\ pc = "loop"
    /\ idx = 2
    /\ Len(gitlab_projects.val) = 2
    /\ outcomes = <<"Failed">>
    /\ Last(calls, 1) = <<"push_all">>
    /\ ~ledger.exists
    /\ failed_migrations = <<gitlab_projects.val[1]>>
    /\ successful_migrations = 0

\* C8 as stated: when transfer_repository has returned, no directory named
\* after the project exists, and a run that reaches the summary leaves no
\* working directory.
C8_NoWorkingAreaLeft ==
    /\ pc = "book" => project_name \notin workdirs
    /\ pc = "done" => workdirs = {}

\* C9 as stated: a failed ledger append after a successful transfer does not
\* end the run; the remaining projects are processed and the summary printed.
C9_LedgerFailureIsLocal ==
    crashedAt = "log_completed_migration" => pc # "crashed"

\* C10 as stated: when the probe answered 404 and the create request was
\* rejected with 422 (name already taken), create_github_repo still yields a
\* locator, so main goes on to the transfer.
C10_NameTakenProceeds ==
    pc = "checkurl" /\ response = "422" => ~github_clone_url.none

\* C11 as stated: a probe or create failure other than "already exists"
\* (here: the probe request raising instead of answering) does not end the
\* run; the project is recorded as failed and the loop goes on.
C11_ResolveFailureIsLocal ==
    crashedAt = "probe" => pc # "crashed"

\* C12: once a page request of the listing has failed, whether the first
\* page or a later one, the run is over without a summary: main has returned
\* at line 171 with no project list, no project was resolved, transferred,
\* skipped or counted, and the ledger holds what it held at the start.
C12_ListingFailureIsFatal ==
    listFailedAt # 0 =>
        /\ pc = "exit"
        /\ gitlab_projects.none
        /\ outcomes = <<>> /\ calls = <<>>
        /\ Handled = 0
        /\ LedgerNames = ledgerAtStart

C12_Witness ==
    /\ listFailedAt = 2
    /\ pc = "exit"
    /\ run = 2
    /\ ledger.exists

\* The project at idx has been probed in this iteration.
Probed == pc \in AttemptPcs /\ calls # <<>>

Count(s, x) == Cardinality({k \in 1..Len(s) : s[k] = x})

\* C13: destination reuse.  After a probe that answered 200 the resolver
\* returns the locator of that repository and sends no further request;
\* a create request is sent only right after a probe that answered 404, and
\* at most once for a project.
C13_ReuseWithoutCreate ==
    /\ Probed /\ response = "200" =>
         /\ "create" \notin Range(calls)
         /\ ~github_clone_url.none
         /\ github_clone_url.val = CloneUrl(project_name)
    /\ pc \in AttemptPcs /\ "create" \in Range(calls) =>
         /\ SubSeq(calls, 1, 2) = <<"probe", "create">>
         /\ Count(calls, "create") = 1
         /\ response # "200"
    /\ pc = "create" => response = "404" /\ calls = <<"probe">>

C13_Witness ==
    /\ pc = "t_clone"
    /\ response = "200"
    /\ Count(calls, "probe") = 1
    /\ ~github_clone_url.none

\* C14 as stated: no file on disk ever holds the destination token; in
\* particular no repository configuration in a working area does.
C14_NoTokenOnDisk ==
    \A o \in origins : o.url.userinfo # Credentials

\* C15: git clone never runs while a directory with the project's name
\* exists: whatever an earlier attempt or an interrupted run left there has
\* been removed by the time the process is at the clone.
C15_CloneIntoNothing ==
    pc = "t_clone" => project_name \notin workdirs /\ Kept({project_name}) = {}

C15_Witness ==
    /\ pc = "t_clone"
    /\ run = 2
    /\ prevRun.ended = "interrupted"
    /\ "rm_stale" \in Range(calls)
    /\ project_name \notin workdirs

IsTransferCall(c) == c \in Range(TransferCalls)

\* The git subprocesses run for the project at idx, in the order they ran.
GitCalls == SelectSeq(calls, IsTransferCall)

\* C16: the git steps of one transfer run in the order clone, filter,
\* set-url, push of branches, push of tags: at each position of the transfer
\* exactly the steps before it have run, each once; the function returns
\* True only after all five, so a return after fewer steps is a failure and
\* no step follows a failed one.
C16_StepsInOrder ==
    /\ pc \in AttemptPcs => IsPrefix(GitCalls, TransferCalls)
    /\ pc \in {"probe", "create", "checkurl", "t_cleanup", "t_clone"} => GitCalls = <<>>
    /\ pc = "t_filter" => GitCalls = SubSeq(TransferCalls, 1, 1)
    /\ pc = "t_seturl" => GitCalls = SubSeq(TransferCalls, 1, 2)
    /\ pc = "t_pushall" => GitCalls = SubSeq(TransferCalls, 1, 3)
    /\ pc = "t_pushtags" => GitCalls = SubSeq(TransferCalls, 1, 4)
    /\ pc = "t_final" => GitCalls = TransferCalls
    /\ pc = "book" /\ success => GitCalls = TransferCalls
    /\ pc = "book" /\ GitCalls # TransferCalls => ~success

C16_Witness ==
    /\ pc = "book"
    /\ ~success
    /\ GitCalls = SubSeq(TransferCalls, 1, 4)

\* C17: the set tested by the skip decision is the one loaded before the
\* loop and stays what the ledger file held at the start of the run, whatever
\* the run appends; a project whose name was appended earlier in the same run
\* is not skipped.
C17_SkipSetLoadedOnce ==
    /\ pc \in {"loop", "done"} \cup AttemptPcs => completed_migrations = ledgerAtStart
    /\ ~gitlab_projects.none =>
         \A k \in 1..Len(outcomes) : \A j \in 1..(k - 1) :
             outcomes[j] = "Completed" /\ gitlab_projects.val[j] = gitlab_projects.val[k]
                 => outcomes[k] # "Skipped"

C17_Witness ==
    /\ pc = "probe"
    /\ idx = 2
    /\ outcomes = <<"Completed">>
    /\ gitlab_projects.val[1] = project_name
    /\ project_name \in LedgerNames
    /\ project_name \notin completed_migrations

\* Names of the projects that reached Completed in this run.
CompletedNames ==
    {gitlab_projects.val[k] : k \in {j \in 1..Len(outcomes) : outcomes[j] = "Completed"}}

\* C18: at every project boundary (the loop head, and the summary) the ledger
\* file has grown since the start of the run by exactly successful_migrations
\* lines, the old lines are still its head, and at the summary its name set
\* is the set at the start together with the names completed in this run.
C18_CompletedAppends ==
    pc \in {"loop", "done"} =>
        /\ Len(ledger.lines) - linesAtStart = successful_migrations
        /\ successful_migrations > 0 => ledger.exists
        /\ pc = "done" => LedgerNames = ledgerAtStart \cup CompletedNames

C18_Witness ==
    /\ pc = "done"
    /\ linesAtStart = 1
    /\ successful_migrations = 1
    /\ outcomes = <<"Failed", "Completed">>

\* The lines this run has appended to the ledger file.
AppendedLines == SubSeq(ledger.lines, linesAtStart + 1, Len(ledger.lines))

\* C19: within one run no name is transferred to completion twice and no
\* name is appended to the ledger file twice, whatever the listing, a listing
\* with two projects of the same path included.
C19_AtMostOncePerName ==
    /\ NoRepeat(AppendedLines)
    /\ ~gitlab_projects.none =>
         \A j, k \in 1..Len(outcomes) :
             /\ outcomes[j] = "Completed"
             /\ outcomes[k] = "Completed"
             /\ gitlab_projects.val[j] = gitlab_projects.val[k]
             => j = k

\* The process is inside the clone: between os.chdir(project_name) and the
\* os.chdir(original_cwd) of the branch that leaves it.
InsideClone == {"t_filter", "t_seturl", "t_pushall", "t_pushtags", "t_final"}

CwdAtEntry ==
    /\ pc \in InsideClone => cwd = Dir(project_name) /\ original_cwd = Root
    /\ pc \notin InsideClone => cwd = Root

\* C20: transfer_repository returns with the working directory it was
\* entered with, on the clone-failure, filter-failure, push-failure and
\* success paths alike: outside the clone the process is in the directory it
\* was started in, and every write to the ledger file is made from there.
C20_CwdRestored ==
    /\ []CwdAtEntry
    /\ [][ledger' # ledger => cwd = Root /\ cwd' = Root]_vars

C20_Witness ==
    /\ pc = "book"
    /\ ~success
    /\ cwd = Root
    /\ idx = 2
    /\ GitCalls = SubSeq(TransferCalls, 1, 2)

====
